---- MODULE Spec2Model ----
(***************************************************************************)
(* A model of cargo-http-registry: the startup sequence of run() and       *)
(* main() in src/main.rs (argument parsing, port recovery, the bind loop,  *)
(* Index construction, population of the shared slot, serving), the        *)
(* publish route with its content-length limit and the mutex around the    *)
(* shared Index, the conversion of a publish result into a response, and   *)
(* the publish pipeline and the Index behind it.  The modules `index` and  *)
(* `publish` are declared in src/main.rs but their files are not part of   *)
(* the sources at hand: their operations are modelled from the design      *)
(* description (sections 4.1 and 4.2).                                     *)
(***************************************************************************)
EXTENDS Integers, Sequences, FiniteSets, TLC

VARIABLES
  mainpc,        \* position of the main thread in main()/run()
  reqPort,       \* args.addr.port(): the port given on the command line
  config,        \* the port recorded in the configuration file (or NoPort)
  addrPort,      \* `addr.port()` inside the bind loop
  originalPort,  \* `original_port`
  binds,         \* history: the bind attempts made, in order, with outcome
  boundPort,     \* the resolved port of the bound listener (or NoPort)
  shared,        \* Arc<Mutex<Option<Index>>>: the slot's content
  mutex,         \* holder of the mutex: Free, a handler, or Poisoned
  runResult,     \* what run() returned: "none", "Ok" or an error kind
  exitCode,      \* the status given to exit(), NoExit while running
  hpc,           \* per connection task: its position in the route
  hreq,          \* per connection task: the request it is serving
  hres,          \* per connection task: the result of publish_crate
  hresp,         \* per connection task: the response produced
  indexFiles,    \* the index tree: path -> content of the Index Entry File
  artifacts,     \* the artifact tree: path -> archive bytes (or NoFile)
  accepted,      \* history: per index path, the publishes that returned Ok
  callpc,        \* position of a direct call of a function ("idle": none)
  callIn,        \* the argument of the direct call
  callOut        \* what the direct call has produced so far

vars == <<mainpc, reqPort, config, addrPort, originalPort, binds, boundPort,
          shared, mutex, runResult, exitCode, hpc, hreq, hres, hresp, indexFiles, artifacts, accepted,
          callpc, callIn, callOut>>

startupVars == <<reqPort, config, addrPort, originalPort, binds, boundPort>>
handlerVars == <<hpc, hreq, hres, hresp>>
diskVars == <<indexFiles, artifacts, accepted>>
callVars == <<callpc, callIn, callOut>>

-----------------------------------------------------------------------------
(* Bounds of the model.                                                    *)

\* Number of requests of a run: each is served by a task of its own, and
\* the runtime schedules the tasks concurrently.
NumHandlers == 2

\* Versions are 1..MaxVersion, ordered as semantic versions are.
MaxVersion == 2

\* The longest list of errors given directly to the encoder.
MaxErrors == 2

Handlers == 1..NumHandlers
Versions == 1..MaxVersion

-----------------------------------------------------------------------------
(* Values.                                                                 *)

\* No port: the configuration is missing or malformed, nothing is bound.
NoPort == 0 - 1
\* The process has not exited.
NoExit == 0 - 1
\* The exit status of a Rust process that panicked.
PanicExit == 101

\* Ports a user can name or a configuration can record.
UserPorts == {8000}
\* Ports the kernel hands out for a bind to port 0.
KernelPorts == {9000}
\* What try_read_port can recover: a port an earlier run bound, or 0 from a
\* hand-written configuration.
RecordedPorts == {0, 9001}


\* The mutex is free.
Free == 0
\* The mutex is poisoned: a thread panicked while holding it.
Poisoned == 0 - 1

-----------------------------------------------------------------------------
(* Text.  A string is a sequence of one-character strings, so that the     *)
(* encoders and the decoder work on characters as the code does.           *)

Quote == "\""
Backslash == "\\"
Newline == "\n"
Space == " "

RECURSIVE Concat(_)
\* The concatenation of a sequence of strings.
Concat(ss) == IF ss = <<>> THEN <<>> ELSE Head(ss) \o Concat(Tail(ss))

K_errors == <<"e", "r", "r", "o", "r", "s">>
K_detail == <<"d", "e", "t", "a", "i", "l">>

\* "failed to convert internal error to JSON"
FallbackMessage ==
  <<"f", "a", "i", "l", "e", "d", " ", "t", "o", " ",
    "c", "o", "n", "v", "e", "r", "t", " ",
    "i", "n", "t", "e", "r", "n", "a", "l", " ",
    "e", "r", "r", "o", "r", " ", "t", "o", " ", "J", "S", "O", "N">>

\* Mutant of EscapeChar: characters are written as they are.
EscapeNothing(c) == <<c>>

\* serde_json's escaping of one character of a string.
EscapeChar(c) ==
  IF c = Quote THEN <<Backslash, Quote>>
  ELSE IF c = Backslash THEN <<Backslash, Backslash>>
  ELSE IF c = Newline THEN <<Backslash, "n">>
  ELSE <<c>>

\* serde_json's encoding of a string: quoted, each character escaped.
EncodeString(s) ==
  <<Quote>> \o Concat([i \in 1..Len(s) |-> EscapeChar(s[i])]) \o <<Quote>>

\* Mutant of EncodeError: the error is written as its bare detail string.
EncodeErrorTransparent(e) == EncodeString(e.detail)

\* Serialize of RegistryError: {"detail":<string>}
EncodeError(e) ==
  <<"{">> \o EncodeString(K_detail) \o <<":">> \o EncodeString(e.detail)
    \o <<"}">>

RECURSIVE JoinComma(_)
JoinComma(ss) ==
  IF ss = <<>> THEN <<>>
  ELSE IF Len(ss) = 1 THEN ss[1]
  ELSE ss[1] \o <<",">> \o JoinComma(Tail(ss))

\* serde_json::to_string of RegistryErrors: {"errors":[<error>,...]}.  A
\* struct of strings always serializes, so the result is always Ok.
to_string(errors) ==
  [ok |-> TRUE,
   val |-> <<"{">> \o EncodeString(K_errors) \o <<":", "[">>
             \o JoinComma([i \in 1..Len(errors.errors) |->
                             EncodeError(errors.errors[i])])
             \o <<"]", "}">>,
   err |-> <<>>]

\* The hand-built fallback: the cause is pasted between quotes, unescaped.
encode_fallback_error(err) ==
  <<"{">> \o EncodeString(K_errors) \o <<":", "[", Newline>>
    \o <<Space, Space, Space, Space, "{">> \o EncodeString(K_detail)
    \o <<":", Quote>> \o FallbackMessage \o <<Quote, "}", ",", Newline>>
    \o <<Space, Space, Space, Space, "{">> \o EncodeString(K_detail)
    \o <<":", Quote>> \o err \o <<Quote, "}", Newline>>
    \o <<Space, Space, "]", "}">>

\* Mutant of RegistryErrorsFrom: only the outermost cause is reported.
RegistryErrorsOutermost(chain) == [errors |-> <<[detail |-> chain[1]]>>]

\* RegistryErrors::from(error): one RegistryError per cause of the chain,
\* outermost first.
RegistryErrorsFrom(chain) ==
  [errors |-> [i \in 1..Len(chain) |-> [detail |-> chain[i]]]]


-----------------------------------------------------------------------------
(* serde_json::from_str::<RegistryErrors>: the decoder of the error array. *)
(* A parser returns [ok, val, next]: next is the position after what it    *)
(* read.                                                                   *)

Whitespace == {Space, Newline}

ParseFail == [ok |-> FALSE, val |-> <<>>, next |-> 0]

RECURSIVE SkipWs(_, _)
\* The first position at or after i that holds no whitespace.
SkipWs(s, i) ==
  IF i <= Len(s) /\ s[i] \in Whitespace THEN SkipWs(s, i + 1) ELSE i

\* The position after character c, expected at i after whitespace; 0 if it
\* is not there.
ExpectChar(s, i, c) ==
  LET j == SkipWs(s, i)
  IN IF j <= Len(s) /\ s[j] = c THEN j + 1 ELSE 0

RECURSIVE ParseStringBody(_, _, _)
\* The rest of a string literal from position i, acc being what was read.
ParseStringBody(s, i, acc) ==
  IF i > Len(s) THEN ParseFail
  ELSE IF s[i] = Quote THEN [ok |-> TRUE, val |-> acc, next |-> i + 1]
  ELSE IF s[i] = Newline THEN ParseFail  \* a raw control character
  ELSE IF s[i] = Backslash
    THEN IF i + 1 > Len(s) THEN ParseFail
         ELSE IF s[i + 1] = Quote
           THEN ParseStringBody(s, i + 2, Append(acc, Quote))
         ELSE IF s[i + 1] = Backslash
           THEN ParseStringBody(s, i + 2, Append(acc, Backslash))
         ELSE IF s[i + 1] = "n"
           THEN ParseStringBody(s, i + 2, Append(acc, Newline))
         ELSE ParseFail
  ELSE ParseStringBody(s, i + 1, Append(acc, s[i]))

\* A string literal at position i, after whitespace.
ParseString(s, i) ==
  LET j == ExpectChar(s, i, Quote)
  IN IF j = 0 THEN ParseFail ELSE ParseStringBody(s, j, <<>>)

\* One RegistryError: {"detail":<string>}
ParseError(s, i) ==
  LET a == ExpectChar(s, i, "{")
      k == IF a = 0 THEN ParseFail ELSE ParseString(s, a)
      c == IF k.ok /\ k.val = K_detail THEN ExpectChar(s, k.next, ":") ELSE 0
      d == IF c = 0 THEN ParseFail ELSE ParseString(s, c)
      e == IF d.ok THEN ExpectChar(s, d.next, "}") ELSE 0
  IN IF e = 0 THEN ParseFail
     ELSE [ok |-> TRUE, val |-> [detail |-> d.val], next |-> e]

RECURSIVE ParseErrorsTail(_, _, _)
\* The elements of the array after the first, up to the closing bracket.
ParseErrorsTail(s, i, acc) ==
  LET close == ExpectChar(s, i, "]")
      comma == ExpectChar(s, i, ",")
      e == IF comma = 0 THEN ParseFail ELSE ParseError(s, comma)
  IN IF close # 0 THEN [ok |-> TRUE, val |-> acc, next |-> close]
     ELSE IF e.ok THEN ParseErrorsTail(s, e.next, Append(acc, e.val))
     ELSE ParseFail

\* The array of errors: [ <error>, ... ]
ParseErrors(s, i) ==
  LET open == ExpectChar(s, i, "[")
      close == IF open = 0 THEN 0 ELSE ExpectChar(s, open, "]")
      e == IF open = 0 THEN ParseFail ELSE ParseError(s, open)
  IN IF open = 0 THEN ParseFail
     ELSE IF close # 0 THEN [ok |-> TRUE, val |-> <<>>, next |-> close]
     ELSE IF e.ok THEN ParseErrorsTail(s, e.next, <<e.val>>)
     ELSE ParseFail

\* from_str::<RegistryErrors>(s): {"errors":[...]} and nothing after it.
from_str(s) ==
  LET a == ExpectChar(s, 1, "{")
      k == IF a = 0 THEN ParseFail ELSE ParseString(s, a)
      c == IF k.ok /\ k.val = K_errors THEN ExpectChar(s, k.next, ":") ELSE 0
      l == IF c = 0 THEN ParseFail ELSE ParseErrors(s, c)
      e == IF l.ok THEN ExpectChar(s, l.next, "}") ELSE 0
  IN IF e # 0 /\ SkipWs(s, e) = Len(s) + 1
       THEN [ok |-> TRUE, val |-> [errors |-> l.val]]
       ELSE [ok |-> FALSE, val |-> [errors |-> <<>>]]

-----------------------------------------------------------------------------
(* Package names and the layout of the registry root.                      *)

\* The lowercase form of one character.
LowerChar(c) ==
  IF c = "A" THEN "a" ELSE IF c = "B" THEN "b"
  ELSE IF c = "C" THEN "c" ELSE IF c = "D" THEN "d" ELSE c

\* The lowercase form of a name.
Lowercase(name) == [i \in 1..Len(name) |-> LowerChar(name[i])]

\* Mutant of CratePath: the name is used in the case it was given in.
CratePathCaseSensitive(name) ==
  IF Len(name) = 1 THEN << <<"1">>, name >>
  ELSE IF Len(name) = 2 THEN << <<"2">>, name >>
  ELSE IF Len(name) = 3 THEN << <<"3">>, SubSeq(name, 1, 1), name >>
  ELSE << SubSeq(name, 1, 2), SubSeq(name, 3, 4), name >>

\* The nesting rule: the path of a name's Index Entry File, as its directory
\* components followed by the file name.
CratePath(name) ==
  LET n == Lowercase(name)
  IN IF Len(n) = 1 THEN << <<"1">>, n >>
     ELSE IF Len(n) = 2 THEN << <<"2">>, n >>
     ELSE IF Len(n) = 3 THEN << <<"3">>, SubSeq(n, 1, 1), n >>
     ELSE << SubSeq(n, 1, 2), SubSeq(n, 3, 4), n >>

\* The storage path of an artifact, derived from its name and version.
ArtifactPath(name, version) == <<name, version>>

\* Characters a package name may hold.
NameChars == {"a", "b", "c", "d", "A", "B", "C", "D", "-", "_"}

\* The names the requests of a run are drawn from.
Names == {<<"a">>, <<"a", "b">>}

IndexPaths == {CratePath(n) : n \in Names}
ArtifactPaths == {ArtifactPath(n, v) : n \in Names, v \in Versions}

\* Archive contents.
Archives == {<<"x">>, <<"y">>}

\* The SHA-256 digest of an archive, as lowercase hex: distinct archives of
\* the model have distinct digests.
Checksum(data) == <<"sha256">> \o data


-----------------------------------------------------------------------------
(* Requests.                                                               *)

\* warp::body::content_length_limit(2 * 1024 * 1024)
ContentLengthLimit == 2 * 1024 * 1024

\* The size of an upload below the cap.
SmallSize == ContentLengthLimit - 1

\* The decoded content of an upload body.  vers = 0 stands for a version
\* string that is no semantic version.  One (name, version) pair comes with
\* two different archives.
ValidPayloads ==
  { p \in [wellFormed : {TRUE}, name : Names, vers : Versions,
           depsOk : {TRUE}, data : Archives] :
      p.data = <<"x">> \/ (p.name = <<"a">> /\ p.vers = 1) }

SamplePayload ==
  [wellFormed |-> TRUE, name |-> <<"a">>, vers |-> 1, depsOk |-> TRUE,
   data |-> <<"y">>]

BadPayloads ==
  { [SamplePayload EXCEPT !.wellFormed = FALSE],
    [SamplePayload EXCEPT !.name = <<>>],
    [SamplePayload EXCEPT !.name = <<"a", "!">>],
    [SamplePayload EXCEPT !.vers = 0],
    [SamplePayload EXCEPT !.depsOk = FALSE] }

NoPayload == [SamplePayload EXCEPT !.wellFormed = FALSE, !.name = <<>>]

\* A request: whether it is a PUT of /api/v1/crates/new, whether it carries
\* a content-length header (which then equals the size of the body), the
\* size of its body and the body's content.
Requests ==
  { [route |-> TRUE, hasLen |-> TRUE, size |-> SmallSize, payload |-> p] :
      p \in ValidPayloads \cup BadPayloads }
  \cup
  { [route |-> TRUE, hasLen |-> TRUE, size |-> n, payload |-> SamplePayload] :
      n \in {ContentLengthLimit, ContentLengthLimit + 1} }
  \cup
  { [route |-> TRUE, hasLen |-> FALSE, size |-> ContentLengthLimit + 1,
     payload |-> SamplePayload],
    [route |-> FALSE, hasLen |-> TRUE, size |-> SmallSize,
     payload |-> SamplePayload] }

NoRequest ==
  [route |-> FALSE, hasLen |-> FALSE, size |-> 0, payload |-> NoPayload]

\* Results of publish_crate.
NoResult ==
  [state |-> "none", kind |-> "none", reason |-> "none", chain |-> <<>>]
OkResult ==
  [state |-> "Ok", kind |-> "none", reason |-> "none", chain |-> <<>>]
ErrResult(kind, reason, chain) ==
  [state |-> "Err", kind |-> kind, reason |-> reason, chain |-> chain]

\* A cause whose text needs escaping.
InnerCause == <<"i", Quote, "o", Backslash, Newline>>

\* The message of an error of a kind (the texts are publish's and index's).
Message(kind) ==
  IF kind = "DecodeFailure" THEN <<"d", "e", "c">>
  ELSE IF kind = "PersistFailure" THEN <<"i", "o">>
  ELSE <<"v", "a", "l">>

\* The chain of causes of an error of a kind, outermost first: a validation
\* error stands alone, the others wrap the cause they report.
ErrorChain(kind) ==
  IF kind = "ValidationFailure" THEN <<Message(kind)>>
  ELSE <<Message(kind), InnerCause>>

\* Responses.  status 0: no response yet.
NoResponse == [status |-> 0, body |-> <<>>]

\* http::StatusCode::OK
StatusOK == 200


-----------------------------------------------------------------------------
(* Direct calls of the encoders, the decoder and the nesting rule, as the  *)
(* unit tests make them: their arguments and what they produce.            *)

\* "error message text"
ErrorMessageText ==
  <<"e", "r", "r", "o", "r", " ", "m", "e", "s", "s", "a", "g", "e", " ",
    "t", "e", "x", "t">>

\* "foobar"
Foobar == <<"f", "o", "o", "b", "a", "r">>

\* Texts an error detail or a cause can be: plain ones, the empty one, and
\* ones holding a quote, a backslash or a line break.
Details ==
  { <<>>, <<"a">>, Foobar, ErrorMessageText, <<Quote>>, <<Backslash, "n">>,
    <<"a", Newline, "b">>, InnerCause }

\* The lists of details given to the encoder.
ErrorLists == UNION { [1..n -> Details] : n \in 0..MaxErrors }

\* Package names given to the nesting rule.
SampleNames ==
  { <<"a">>, <<"A">>, <<"a", "b">>, <<"A", "b">>, <<"a", "B">>,
    <<"a", "b", "c">>, <<"A", "B", "C">>, <<"a", "b", "c", "d">>,
    <<"A", "b", "C", "d">>, <<"a", "b", "c", "d", "a">>,
    <<"a", "-", "B", "_", "c">>, <<"a", "_", "b">>, <<"a", "-", "b">> }

\* The argument of a direct call: a list of details for to_string, a cause
\* for encode_fallback_error, a package name for the nesting rule.
CallInputs ==
  { [kind |-> "errors", errors |-> l, text |-> <<>>] : l \in ErrorLists }
  \cup { [kind |-> "cause", errors |-> <<>>, text |-> c] : c \in Details }
  \cup { [kind |-> "name", errors |-> <<>>, text |-> n] : n \in SampleNames }

NoCallInput == [kind |-> "none", errors |-> <<>>, text |-> <<>>]

\* What a direct call produced: the encoded text, what the decoder made of
\* it, the path resolved.
NoCallOutput ==
  [text |-> <<>>, decoded |-> [ok |-> FALSE, val |-> [errors |-> <<>>]],
   path |-> <<>>]

-----------------------------------------------------------------------------
(* The state after the process starts: nothing has run yet.  The registry  *)
(* root holds no index entry and no artifact; a configuration may be left  *)
(* from an earlier run.                                                    *)

NoArtifact == [exists |-> FALSE, bytes |-> <<>>]

\* The process before main() runs, for a requested port and a configuration.
ProcessStart(port, recorded) ==
  /\ mainpc = "args"
  /\ reqPort = port
  /\ config = recorded
  /\ addrPort = NoPort
  /\ originalPort = NoPort
  /\ binds = <<>>
  /\ boundPort = NoPort
  /\ shared = "None"
  /\ mutex = Free
  /\ runResult = "none"
  /\ exitCode = NoExit
  /\ hpc = [h \in Handlers |-> "idle"]
  /\ hreq = [h \in Handlers |-> NoRequest]
  /\ hres = [h \in Handlers |-> NoResult]
  /\ hresp = [h \in Handlers |-> NoResponse]
  /\ indexFiles = [p \in IndexPaths |-> <<>>]
  /\ artifacts = [p \in ArtifactPaths |-> NoArtifact]
  /\ accepted = [p \in IndexPaths |-> <<>>]

Init ==
  /\ \E port \in {0} \cup UserPorts :
       \E recorded \in {NoPort} \cup RecordedPorts :
         ProcessStart(port, recorded)
  /\ callpc = "idle"
  /\ callIn = NoCallInput
  /\ callOut = NoCallOutput

-----------------------------------------------------------------------------
(* run() and main().                                                       *)

\* run() returns Err(kind): `?` or `return Err(err)`.
ReturnErr(kind) ==
  /\ mainpc' = "returned"
  /\ runResult' = kind

\* let args = Args::from_args_safe()?;  and the creation of the empty slot.
ParseArgs ==
  /\ mainpc = "args"
  /\ \E ok \in BOOLEAN :
       IF ok THEN mainpc' = "subscriber" /\ UNCHANGED runResult
       ELSE ReturnErr("ArgsFailure")
  /\ UNCHANGED <<startupVars, shared, mutex, exitCode, handlerVars, diskVars,
                 callVars>>

\* set_global_subscriber(subscriber).with_context(..)?
SetSubscriber ==
  /\ mainpc = "subscriber"
  /\ \E ok \in BOOLEAN :
       IF ok THEN mainpc' = "runtime" /\ UNCHANGED runResult
       ELSE ReturnErr("SubscriberFailure")
  /\ UNCHANGED <<startupVars, shared, mutex, exitCode, handlerVars, diskVars,
                 callVars>>

\* let mut rt = Runtime::new().unwrap();  a failure panics the process.
NewRuntime ==
  /\ mainpc = "runtime"
  /\ \E ok \in BOOLEAN :
       IF ok THEN mainpc' = "readport" /\ UNCHANGED exitCode
       ELSE mainpc' = "exited" /\ exitCode' = PanicExit
  /\ UNCHANGED <<startupVars, shared, mutex, runResult, handlerVars, diskVars,
                 callVars>>

\* Index::try_read_port(&args.root): Ok(port) when the configuration holds
\* one, Err when it is missing or malformed.
TryReadPortOk == config # NoPort

\* Mutant of FirstPort: a recorded port is used whatever port was requested.
FirstPortRecorded == IF TryReadPortOk THEN config ELSE reqPort

\* The address of the first bind: the recorded port when the requested port
\* is kernel-assigned and a port is recovered.
FirstPort ==
  IF reqPort = 0 /\ TryReadPortOk THEN config ELSE reqPort

\* let mut addr = args.addr; let original_port = addr.port(); and the
\* recovery of the recorded port.
ReadPort ==
  /\ mainpc = "readport"
  /\ originalPort' = reqPort
  /\ addrPort' = FirstPort
  /\ mainpc' = "bind"
  /\ UNCHANGED <<reqPort, config, binds, boundPort, shared, mutex, runResult,
                 exitCode, handlerVars, diskVars,
                 callVars>>

\* Mutant of RetryWithOriginal: a failed bind is never retried.
NeverRetry == FALSE

\* The guard of the retry arm: Err(_) if addr.port() != original_port
RetryWithOriginal == addrPort # originalPort

\* One iteration of the bind loop: try_bind_ephemeral(addr) and the match on
\* its result.  A bind to port 0 resolves to a port of the kernel's choice.
Bind ==
  /\ mainpc = "bind"
  /\ \E ok \in BOOLEAN :
       /\ binds' = Append(binds, [port |-> addrPort, ok |-> ok])
       /\ IF ok
            THEN /\ \E p \in (IF addrPort = 0 THEN KernelPorts ELSE {addrPort}) :
                      boundPort' = p
                 /\ mainpc' = "index"
                 /\ UNCHANGED <<addrPort, runResult>>
          ELSE IF RetryWithOriginal
            THEN /\ addrPort' = originalPort
                 /\ UNCHANGED <<mainpc, boundPort, runResult>>
          ELSE /\ ReturnErr("BindFailure")
               /\ UNCHANGED <<addrPort, boundPort>>
  /\ UNCHANGED <<reqPort, config, originalPort, shared, mutex, exitCode,
                 handlerVars, diskVars,
                 callVars>>

\* let index = Index::new(&args.root, &addr).with_context(..)?;  on success
\* the configuration records the bound address.
IndexNew ==
  /\ mainpc = "index"
  /\ \E ok \in BOOLEAN :
       IF ok THEN /\ config' = boundPort
                  /\ mainpc' = "populate"
                  /\ UNCHANGED runResult
       ELSE /\ ReturnErr("IndexInitFailure")
            /\ UNCHANGED config
  /\ UNCHANGED <<reqPort, addrPort, originalPort, binds, boundPort, shared,
                 mutex, exitCode, handlerVars, diskVars,
                 callVars>>

\* *shared.lock().unwrap() = Some(index);  then serve.await starts.
Populate ==
  /\ mainpc = "populate"
  /\ mutex = Free
  /\ shared' = "Some"
  /\ mainpc' = "serving"
  /\ UNCHANGED <<startupVars, mutex, runResult, exitCode, handlerVars,
                 diskVars,
                 callVars>>

\* Mutant of Serving: the server processes connections as soon as the
\* listener is bound.
ServingOnceBound == mainpc \in {"index", "populate", "serving"}

\* serve.await: the server accepts and processes connections.
Serving == mainpc = "serving"

\* A task is inside the closure of the route: between its call of lock()
\* and the drop of the guard.
InClosure(h) ==
  hpc[h] \in {"lock", "decode", "validate", "persist", "append", "flush",
              "return"}

\* serve.await completes; Ok(()).  run() returns once the runtime is
\* dropped, and the drop waits for the worker threads: a closure that is
\* running (it is synchronous) completes first, then the tasks are dropped.
ServeEnds ==
  /\ mainpc = "serving"
  /\ \A h \in Handlers : ~InClosure(h)
  /\ mainpc' = "returned"
  /\ runResult' = "Ok"
  /\ hpc' = [h \in Handlers |-> "dropped"]
  /\ hreq' = [h \in Handlers |-> NoRequest]
  /\ hres' = [h \in Handlers |-> NoResult]
  /\ hresp' = [h \in Handlers |-> NoResponse]
  /\ UNCHANGED <<startupVars, shared, mutex, exitCode, diskVars,
                 callVars>>

\* Mutant of ExitCodeOf: the error of run() is printed but not turned into
\* a status.
ExitCodeAlwaysZero(result) == 0

\* run().map(|_| 0).map_err(..).unwrap_or(1)
ExitCodeOf(result) == IF result = "Ok" THEN 0 ELSE 1

\* main(): the exit code of the result of run(), then exit(exit_code).
Main ==
  /\ mainpc = "returned"
  /\ exitCode' = ExitCodeOf(runResult)
  /\ mainpc' = "exited"
  /\ UNCHANGED <<startupVars, shared, mutex, runResult, handlerVars, diskVars,
                 callVars>>


-----------------------------------------------------------------------------
(* The Index: entry files and their records.                               *)

\* The content of an Index Entry File is a sequence of written pieces: a
\* serialized Version Record, or the line terminator that completes it.
RecordPiece(name, version, data) ==
  [t |-> "rec", name |-> name, vers |-> version, cksum |-> Checksum(data)]
LinePiece == [t |-> "nl", name |-> <<>>, vers |-> 0, cksum |-> <<>>]

\* Every line of the file is one complete Version Record.
WellFormed(f) ==
  /\ Len(f) % 2 = 0
  /\ \A i \in 1..Len(f) : f[i].t = (IF i % 2 = 1 THEN "rec" ELSE "nl")

\* Position i of the file holds a record that is a line of its own.
IsLine(f, i) ==
  /\ f[i].t = "rec"
  /\ i = 1 \/ f[i - 1].t = "nl"
  /\ i < Len(f) /\ f[i + 1].t = "nl"

RECURSIVE LinesFrom(_, _)
LinesFrom(f, i) ==
  IF i > Len(f) THEN <<>>
  ELSE IF IsLine(f, i) THEN <<f[i]>> \o LinesFrom(f, i + 1)
  ELSE LinesFrom(f, i + 1)

\* lookup(name): the records of the name's Index Entry File, in file order;
\* empty if the name was never published.
Lookup(name) == LinesFrom(indexFiles[CratePath(name)], 1)

\* Mutant of AppendVerdict: only an equal version is refused.
AppendVerdictNoOrder(records, version) ==
  IF \E i \in 1..Len(records) : records[i].vers = version
    THEN "DuplicateVersion"
  ELSE "Ok"

\* Mutant of AppendVerdict: one check refuses every version that is not
\* above the existing ones, as a duplicate.
AppendVerdictOneCheck(records, version) ==
  IF \E i \in 1..Len(records) : records[i].vers >= version
    THEN "DuplicateVersion"
  ELSE "Ok"

\* The checks of append_version against the records re-read from the file.
AppendVerdict(records, version) ==
  IF \E i \in 1..Len(records) : records[i].vers = version
    THEN "DuplicateVersion"
  ELSE IF \E i \in 1..Len(records) : records[i].vers > version
    THEN "NonMonotonicVersion"
  ELSE "Ok"

-----------------------------------------------------------------------------
(* The publish pipeline.                                                   *)

\* Decode: both length-prefixed segments are present and parse.
DecodeOk(payload) == payload.wellFormed

\* Mutant of ValidateVerdict: the name is not checked.
ValidateVerdictAnyName(payload) ==
  IF payload.vers \notin Versions THEN "BadVersion"
  ELSE IF ~payload.depsOk THEN "BadDependency"
  ELSE "Ok"

\* Validate: the name, the version and the dependencies of the metadata.
ValidateVerdict(payload) ==
  IF \/ payload.name = <<>>
     \/ \E i \in 1..Len(payload.name) : payload.name[i] \notin NameChars
    THEN "BadName"
  ELSE IF payload.vers \notin Versions THEN "BadVersion"
  ELSE IF ~payload.depsOk THEN "BadDependency"
  ELSE "Ok"

\* Mutant of AfterPersist: a failed artifact write does not abort.
AfterPersistNoAbort(ok) == "append"

\* The step after the artifact write: the index append on success, the
\* return of the error otherwise.
AfterPersist(ok) == IF ok THEN "append" ELSE "return"

-----------------------------------------------------------------------------
(* The publish route and its handler.                                      *)

\* Mutant of ContentLengthOk: the cap is not applied.
ContentLengthUnchecked(length) == TRUE

\* warp::body::content_length_limit: the declared length is within the cap.
ContentLengthOk(length) == length <= ContentLengthLimit

\* The status the filters before the closure reject a request with; 0 when
\* the request reaches the closure.
FilterStatus(r) ==
  IF ~r.route THEN 404
  ELSE IF ~r.hasLen THEN 411
  ELSE IF ~ContentLengthOk(r.size) THEN 413
  ELSE 0

\* A connection task takes a request through the filters of the route.
Accept(h) ==
  /\ Serving
  /\ hpc[h] = "idle"
  /\ \E r \in Requests :
       /\ hreq' = [hreq EXCEPT ![h] = r]
       /\ IF FilterStatus(r) = 0
            THEN /\ hpc' = [hpc EXCEPT ![h] = "lock"]
                 /\ UNCHANGED hresp
            ELSE /\ hpc' = [hpc EXCEPT ![h] = "replied"]
                 /\ hresp' = [hresp EXCEPT
                                ![h] = [status |-> FilterStatus(r),
                                        body |-> <<>>]]
  /\ UNCHANGED <<mainpc, startupVars, shared, mutex, runResult, exitCode,
                 hres, diskVars,
                 callVars>>

\* Mutant of LockFree: lock() returns without waiting for the holder.
LockWithoutWaiting == TRUE

\* copy.lock() returns when no other thread holds the mutex: with the guard,
\* or with a PoisonError when a holder panicked.
LockFree == mutex \in {Free, Poisoned}

\* Mutant of AsMut: the Index is moved out of the slot.
Take(slot) == "None"

\* Option::as_mut: a reference to the content; the slot keeps it.
AsMut(slot) == slot

\* let mut index = copy.lock().unwrap();
\* let mut index = index.as_mut().unwrap();
\* The unwrap of a PoisonError panics; the unwrap of an empty slot panics
\* with the guard held, which poisons the mutex.
Lock(h) ==
  /\ Serving
  /\ hpc[h] = "lock"
  /\ LockFree
  /\ IF mutex = Poisoned \/ shared = "None"
       THEN /\ hpc' = [hpc EXCEPT ![h] = "panicked"]
            /\ mutex' = Poisoned
            /\ UNCHANGED shared
       ELSE /\ hpc' = [hpc EXCEPT ![h] = "decode"]
            /\ mutex' = h
            /\ shared' = AsMut(shared)
  /\ UNCHANGED <<mainpc, startupVars, runResult, exitCode, hreq, hres,
                 hresp, diskVars,
                 callVars>>

\* publish_crate fails with an error of the kind.
Fail(h, kind, reason) ==
  /\ hres' = [hres EXCEPT ![h] = ErrResult(kind, reason, ErrorChain(kind))]
  /\ hpc' = [hpc EXCEPT ![h] = "return"]

\* Received -> Decoded
Decode(h) ==
  /\ Serving
  /\ hpc[h] = "decode"
  /\ IF DecodeOk(hreq[h].payload)
       THEN hpc' = [hpc EXCEPT ![h] = "validate"] /\ UNCHANGED hres
       ELSE Fail(h, "DecodeFailure", "Malformed")
  /\ UNCHANGED <<mainpc, startupVars, shared, mutex, runResult, exitCode,
                 hreq, hresp, diskVars,
                 callVars>>

\* Decoded -> Validated
Validate(h) ==
  /\ Serving
  /\ hpc[h] = "validate"
  /\ LET verdict == ValidateVerdict(hreq[h].payload)
     IN IF verdict = "Ok"
          THEN hpc' = [hpc EXCEPT ![h] = "persist"] /\ UNCHANGED hres
          ELSE Fail(h, "ValidationFailure", verdict)
  /\ UNCHANGED <<mainpc, startupVars, shared, mutex, runResult, exitCode,
                 hreq, hresp, diskVars,
                 callVars>>

\* Validated -> ArtifactPersisted: the archive bytes are written to the
\* artifact's path, unless the write fails.
Persist(h) ==
  /\ Serving
  /\ hpc[h] = "persist"
  /\ LET p == hreq[h].payload
     IN \E ok \in BOOLEAN :
          /\ IF ok
               THEN /\ artifacts' =
                         [artifacts EXCEPT
                            ![ArtifactPath(p.name, p.vers)] =
                              [exists |-> TRUE, bytes |-> p.data]]
                    /\ UNCHANGED hres
               ELSE /\ hres' = [hres EXCEPT
                                    ![h] = ErrResult(
                                             "PersistFailure", "Artifact",
                                             ErrorChain("PersistFailure"))]
                    /\ UNCHANGED artifacts
          /\ hpc' = [hpc EXCEPT ![h] = AfterPersist(ok)]
  /\ UNCHANGED <<mainpc, startupVars, shared, mutex, runResult, exitCode,
                 hreq, hresp, indexFiles, accepted,
                 callVars>>

\* ArtifactPersisted -> Indexed, first half: append_version re-reads the
\* records, checks the version and writes the serialized record.
AppendVersion(h) ==
  /\ Serving
  /\ hpc[h] = "append"
  /\ LET p == hreq[h].payload
         verdict == AppendVerdict(Lookup(p.name), p.vers)
     IN IF verdict # "Ok"
          THEN Fail(h, "ValidationFailure", verdict) /\ UNCHANGED indexFiles
          ELSE \E ok \in BOOLEAN :
                 IF ok
                   THEN /\ indexFiles' =
                             [indexFiles EXCEPT
                                ![CratePath(p.name)] =
                                  Append(@, RecordPiece(p.name, p.vers,
                                                        p.data))]
                        /\ hpc' = [hpc EXCEPT ![h] = "flush"]
                        /\ UNCHANGED hres
                   ELSE /\ Fail(h, "PersistFailure", "Index")
                        /\ UNCHANGED indexFiles
  /\ UNCHANGED <<mainpc, startupVars, shared, mutex, runResult, exitCode,
                 hreq, hresp, artifacts, accepted,
                 callVars>>

\* ArtifactPersisted -> Indexed, second half: the line is terminated and
\* flushed, and append_version returns success.
Flush(h) ==
  /\ Serving
  /\ hpc[h] = "flush"
  /\ LET path == CratePath(hreq[h].payload.name)
     IN /\ indexFiles' = [indexFiles EXCEPT ![path] = Append(@, LinePiece)]
        /\ accepted' = [accepted EXCEPT
                          ![path] = Append(@, hreq[h].payload.vers)]
  /\ hres' = [hres EXCEPT ![h] = OkResult]
  /\ hpc' = [hpc EXCEPT ![h] = "return"]
  /\ UNCHANGED <<mainpc, startupVars, shared, mutex, runResult, exitCode,
                 hreq, hresp, artifacts,
                 callVars>>

\* response(result): the reply for a result of publish_crate.
response(result) ==
  [status |-> StatusOK,
   body |-> IF result.state = "Ok" THEN <<>>
            ELSE LET errors == RegistryErrorsFrom(result.chain)
                     encoded == to_string(errors)
                 IN IF encoded.ok THEN encoded.val
                    ELSE encode_fallback_error(encoded.err)]

\* Mutant of AfterDrop: the guard outlives the closure, the mutex stays held.
GuardKept(h) == mutex

\* The mutex after the closure's guard is dropped.
AfterDrop(h) == IF mutex = h THEN Free ELSE mutex

\* publish_crate returned: the closure ends, its guard is dropped, and
\* .and_then(response) turns the result into the reply.  The body was moved
\* into publish_crate and is gone.
Return(h) ==
  /\ Serving
  /\ hpc[h] = "return"
  /\ mutex' = AfterDrop(h)
  /\ hresp' = [hresp EXCEPT ![h] = response(hres[h])]
  /\ hreq' = [hreq EXCEPT ![h] = NoRequest]
  /\ hpc' = [hpc EXCEPT ![h] = "replied"]
  /\ UNCHANGED <<mainpc, startupVars, shared, runResult, exitCode, hres,
                 diskVars,
                 callVars>>

-----------------------------------------------------------------------------

Next ==
  \/ ParseArgs
  \/ SetSubscriber
  \/ NewRuntime
  \/ ReadPort
  \/ Bind
  \/ IndexNew
  \/ Populate
  \/ ServeEnds
  \/ Main
  \/ \E h \in Handlers : Accept(h)
  \/ \E h \in Handlers : Lock(h)
  \/ \E h \in Handlers : Decode(h)
  \/ \E h \in Handlers : Validate(h)
  \/ \E h \in Handlers : Persist(h)
  \/ \E h \in Handlers : AppendVersion(h)
  \/ \E h \in Handlers : Flush(h)
  \/ \E h \in Handlers : Return(h)

Spec == Init /\ [][Next]_vars

\* A step of a task inside the closure or waiting at its lock().
ClosureStep ==
  \E h \in Handlers :
    \/ Lock(h)
    \/ Decode(h)
    \/ Validate(h)
    \/ Persist(h)
    \/ AppendVersion(h)
    \/ Flush(h)
    \/ Return(h)

\* The runtime runs a task that can run: a worker thread inside the
\* synchronous closure keeps executing, and a thread blocked in lock() is
\* woken once the mutex is free.  Nothing forces a request to arrive, the
\* startup to proceed or the server to end.
FairSpec == Spec /\ WF_vars(ClosureStep)


-----------------------------------------------------------------------------
(* The functions called directly, outside the server: the process is not   *)
(* started and nothing of it changes.                                      *)

programVars ==
  <<mainpc, startupVars, shared, mutex, runResult, exitCode, handlerVars,
    diskVars>>

CallInit ==
  /\ ProcessStart(0, NoPort)
  /\ callpc = "input"
  /\ callIn \in CallInputs
  /\ callOut = NoCallOutput

\* to_string(&errors).unwrap() of a RegistryErrors built from the details.
EncodeErrors ==
  /\ callpc = "input"
  /\ callIn.kind = "errors"
  /\ LET errors == [errors |-> [i \in 1..Len(callIn.errors) |->
                                  [detail |-> callIn.errors[i]]]]
     IN callOut' = [callOut EXCEPT !.text = to_string(errors).val]
  /\ callpc' = "encoded"
  /\ UNCHANGED <<programVars, callIn>>

\* encode_fallback_error(cause)
EncodeFallback ==
  /\ callpc = "input"
  /\ callIn.kind = "cause"
  /\ callOut' = [callOut EXCEPT !.text = encode_fallback_error(callIn.text)]
  /\ callpc' = "encoded"
  /\ UNCHANGED <<programVars, callIn>>

\* from_str::<RegistryErrors>(&encoded)
DecodeErrors ==
  /\ callpc = "encoded"
  /\ callOut' = [callOut EXCEPT !.decoded = from_str(callOut.text)]
  /\ callpc' = "done"
  /\ UNCHANGED <<programVars, callIn>>

\* The path of the Index Entry File of a name.
ResolvePath ==
  /\ callpc = "input"
  /\ callIn.kind = "name"
  /\ callOut' = [callOut EXCEPT !.path = CratePath(callIn.text)]
  /\ callpc' = "done"
  /\ UNCHANGED <<programVars, callIn>>

CallNext ==
  \/ EncodeErrors
  \/ EncodeFallback
  \/ DecodeErrors
  \/ ResolvePath

CallSpec == CallInit /\ [][CallNext]_vars

-----------------------------------------------------------------------------
(* Properties.                                                             *)

\* A task holds the guard: it is between the return of lock() and the drop
\* of the guard, executing publish_crate or about to leave the closure.
Publishing(h) ==
  hpc[h] \in {"decode", "validate", "persist", "append", "flush", "return"}

\* C1: publishes are globally serialized.  In every reachable state at most
\* one task is executing the publish pipeline, whatever the package names,
\* and that task is the holder of the mutex around the shared Index.
C1_PublishSerialized ==
  /\ Cardinality({h \in Handlers : Publishing(h)}) <= 1
  /\ \A h \in Handlers : Publishing(h) => mutex = h

\* C1 witness: one task is appending to the index while another, publishing
\* a different package name, waits for the mutex.
C1_Witness ==
  \E h1, h2 \in Handlers :
    /\ hpc[h1] = "append"
    /\ hpc[h2] = "lock"
    /\ hreq[h1].payload.name # hreq[h2].payload.name

\* C2: no request handler observes an empty slot.  No task ever panics on
\* the unwrap; whenever the server processes connections the listener is
\* bound, the Index was constructed from the resolved address and the slot
\* is populated; a task that left the idle state finds the slot populated.
C2_SlotPopulatedBeforeServing ==
  /\ \A h \in Handlers : hpc[h] # "panicked"
  /\ mutex # Poisoned
  /\ Serving => shared = "Some" /\ boundPort # NoPort /\ config = boundPort
  /\ \A h \in Handlers : hpc[h] \notin {"idle", "dropped"} => shared = "Some"

\* C2 witness: a task passed the unwrap of the slot and runs publish_crate.
C2_Witness ==
  \E h \in Handlers : hpc[h] = "decode" /\ mutex = h /\ shared = "Some"

\* The index holds a record of the payload's name and version.
AlreadyPresent(payload) ==
  /\ payload.wellFormed
  /\ payload.name \in Names
  /\ \E i \in 1..Len(Lookup(payload.name)) :
       /\ Lookup(payload.name)[i].name = payload.name
       /\ Lookup(payload.name)[i].vers = payload.vers

\* C3 (as claimed): a step of a publish of a (name, version) pair that is
\* already in the index changes no index entry file and no artifact, and
\* when the publish returns it returns a failure: a ValidationFailure, or
\* the PersistFailure of a write the disk refused.
C3_DuplicateLeavesDiskUnchanged ==
  [][\A h \in Handlers :
       ( /\ hpc[h] \in {"decode", "validate", "persist", "append"}
         /\ hpc'[h] # hpc[h]
         /\ AlreadyPresent(hreq[h].payload) )
       => /\ indexFiles' = indexFiles
          /\ artifacts' = artifacts
          /\ hpc'[h] = "return"
               => /\ hres'[h].state = "Err"
                  /\ hres'[h].kind \in {"ValidationFailure",
                                        "PersistFailure"}]_vars

\* C4: every Version Record written to the index, complete line or not, has
\* its artifact at the path derived from its name and version.
C4_RecordsHaveArtifacts ==
  \A p \in IndexPaths :
    \A i \in 1..Len(indexFiles[p]) :
      indexFiles[p][i].t = "rec"
        => artifacts[ArtifactPath(indexFiles[p][i].name,
                                  indexFiles[p][i].vers)].exists

\* C4 witness: the index holds a record, and a publish whose artifact write
\* failed has returned.
C4_Witness ==
  /\ \E p \in IndexPaths : Len(indexFiles[p]) > 0
  /\ \E h \in Handlers :
       hres[h].kind = "PersistFailure" /\ hres[h].reason = "Artifact"

\* The versions of a sequence of records.
VersionsOf(records) == [i \in 1..Len(records) |-> records[i].vers]

\* C5: for every name, the records lookup returns are in strictly ascending
\* version order (so no two share a version) and are exactly the accepted
\* publishes, in the order they were accepted.
C5_LookupAscending ==
  \A n \in Names :
    LET versions == VersionsOf(Lookup(n))
    IN /\ \A i, j \in 1..Len(versions) : i < j => versions[i] < versions[j]
       /\ versions = accepted[CratePath(n)]

\* C5 witness: lookup returns two records for a name.
C5_Witness ==
  \E n \in Names :
    /\ Len(Lookup(n)) = 2
    /\ Lookup(n)[1].vers < Lookup(n)[2].vers

\* The tasks between the write of a record and its completion in a file.
Writers(p) ==
  {h \in Handlers : hpc[h] = "flush" /\ CratePath(hreq[h].payload.name) = p}

\* C6: no partial writes interleave.  An Index Entry File no append is in
\* progress on consists only of complete Version Record lines, one per
\* accepted publish; while an append is in progress there is one writer,
\* and the file is such a file followed by the one record being written.
C6_NoInterleavedWrites ==
  \A p \in IndexPaths :
    LET f == indexFiles[p]
    IN IF Writers(p) = {}
         THEN WellFormed(f) /\ Len(f) = 2 * Len(accepted[p])
         ELSE /\ Cardinality(Writers(p)) = 1
              /\ Len(f) = 2 * Len(accepted[p]) + 1
              /\ WellFormed(SubSeq(f, 1, Len(f) - 1))
              /\ f[Len(f)].t = "rec"

\* C6 witness: publishes of two distinct names are in flight together: one
\* has written its record and not yet completed the line, the other waits
\* for the mutex.
C6_Witness ==
  \E h1, h2 \in Handlers :
    /\ hpc[h1] = "flush"
    /\ hpc[h2] = "lock"
    /\ DecodeOk(hreq[h2].payload)
    /\ hreq[h2].payload.name \in Names
    /\ CratePath(hreq[h1].payload.name) # CratePath(hreq[h2].payload.name)

\* C7: an upload whose body exceeds the size bound is rejected before the
\* closure: the step that takes the request replies without taking the
\* lock and without touching an index file or an artifact, and a task
\* serving such a request is never inside the closure.
C7_OversizeRejected ==
  /\ [][\A h \in Handlers :
          ( /\ hpc[h] = "idle"
            /\ hpc'[h] # "idle"
            /\ hreq'[h].size > ContentLengthLimit )
          => /\ hpc'[h] = "replied"
             /\ hresp'[h].status # StatusOK
             /\ hres'[h] = NoResult
             /\ mutex' = mutex
             /\ indexFiles' = indexFiles
             /\ artifacts' = artifacts]_vars
  /\ [](\A h \in Handlers :
          hreq[h].size > ContentLengthLimit => ~InClosure(h))

\* C7 witness: an oversized upload was rejected while the index held a
\* record.
C7_Witness ==
  \E h \in Handlers :
    /\ hpc[h] = "replied"
    /\ hreq[h].route /\ hreq[h].hasLen
    /\ hreq[h].size > ContentLengthLimit
    /\ hresp[h].status = 413
    /\ \E p \in IndexPaths : Len(indexFiles[p]) > 0

\* C8: every publish result becomes a response with status OK whose body
\* is empty exactly when the publish succeeded, and otherwise decodes as an
\* error array with at least one detail.  Stated of the step that converts
\* the result publish_crate returned into the reply.
C8_ResponseAlwaysOk ==
  [][\A h \in Handlers :
       (hpc[h] = "return" /\ hpc'[h] = "replied")
         => LET decoded == from_str(hresp'[h].body)
            IN /\ hresp'[h].status = StatusOK
               /\ hresp'[h].body = <<>> <=> hres[h].state = "Ok"
               /\ hres[h].state # "Ok"
                    => /\ decoded.ok
                       /\ Len(decoded.val.errors) >= 1]_vars

\* C8 witness: a failed publish whose chain has two causes was answered.
C8_Witness ==
  \E h \in Handlers :
    /\ hpc[h] = "replied"
    /\ hres[h].state = "Err"
    /\ Len(hres[h].chain) = 2
    /\ hresp[h].status = StatusOK

\* The configuration is still the one the process started with.
ConfigUntouched ==
  \/ mainpc \in {"bind", "index"}
  \/ runResult \in {"BindFailure", "IndexInitFailure"}

\* C9: with requested port 0 and a previously bound port recovered, the
\* first bind is on the recovered port; if it fails the next bind is on
\* port 0, and when that one succeeds the bind loop yields the listener
\* instead of a bind failure; a bind failure is returned only after the
\* fallback failed too.  With no port recovered the first bind is on the
\* requested port 0.
C9_RecoveredPortFirst ==
  (originalPort = 0 /\ binds # <<>>) =>
    /\ (ConfigUntouched /\ TryReadPortOk /\ config # 0)
         => /\ binds[1].port = config
            /\ (~binds[1].ok /\ Len(binds) = 1)
                 => mainpc = "bind" /\ addrPort = 0
            /\ runResult = "BindFailure" => Len(binds) = 2
    /\ (ConfigUntouched /\ ~TryReadPortOk) => binds[1].port = 0
    /\ Len(binds) >= 2
         => /\ ~binds[1].ok
            /\ binds[1].port # 0
            /\ binds[2].port = 0
            /\ binds[2].ok
                 => /\ boundPort \in KernelPorts
                    /\ runResult # "BindFailure"

\* C9 witness: the recovered port could not be bound, the fallback to port
\* 0 could, and the server is serving.
C9_Witness ==
  /\ mainpc = "serving"
  /\ originalPort = 0
  /\ Len(binds) = 2
  /\ binds[1].port = 9001 /\ ~binds[1].ok
  /\ binds[2].port = 0 /\ binds[2].ok

\* The last bind attempt failed on the originally requested port.
BindFailedOnOriginal ==
  /\ binds # <<>>
  /\ ~binds[Len(binds)].ok
  /\ binds[Len(binds)].port = originalPort

\* C10: startup failures are fatal.  A failed bind on the originally
\* requested port makes run return BindFailure, and only that does; after
\* BindFailure or IndexInitFailure the slot is empty, no task ever served a
\* request and the exit status is not 0; the exit status is 0 only when
\* run returned Ok.
C10_StartupFailuresFatal ==
  /\ BindFailedOnOriginal <=> runResult = "BindFailure"
  /\ runResult = "IndexInitFailure" => boundPort # NoPort
  /\ runResult \in {"BindFailure", "IndexInitFailure"}
       => /\ shared = "None"
          /\ mainpc \in {"returned", "exited"}
          /\ \A h \in Handlers : hpc[h] = "idle"
          /\ \A p \in IndexPaths : indexFiles[p] = <<>>
  /\ mainpc = "exited"
       => /\ exitCode # NoExit
          /\ exitCode = 0 <=> runResult = "Ok"
  /\ mainpc # "exited" => exitCode = NoExit

\* C10 witness: the process exited with status 1 after the Index could not
\* be constructed on a bound listener.
C10_Witness ==
  /\ mainpc = "exited"
  /\ runResult = "IndexInitFailure"
  /\ boundPort # NoPort
  /\ exitCode = 1

\* C11 (as claimed): for every cause given to the fallback encoder, the
\* output decodes with the error-array decoder into exactly two errors: the
\* first detail is "failed to convert internal error to JSON", the second
\* is the cause's text.
C11_FallbackWellFormed ==
  (callpc = "done" /\ callIn.kind = "cause")
    => /\ callOut.decoded.ok
       /\ Len(callOut.decoded.val.errors) = 2
       /\ callOut.decoded.val.errors[1].detail = FallbackMessage
       /\ callOut.decoded.val.errors[2].detail = callIn.text

\* {"errors":[{"detail":"error message text"}]}
SamplePayloadText ==
  <<"{", Quote, "e", "r", "r", "o", "r", "s", Quote, ":", "[",
    "{", Quote, "d", "e", "t", "a", "i", "l", Quote, ":", Quote>>
    \o ErrorMessageText \o <<Quote, "}", "]", "}">>

\* A text that needs no escaping.
PlainText(t) ==
  \A i \in 1..Len(t) : t[i] \notin {Quote, Backslash, Newline}

RECURSIVE PlainObjects(_)
\* {"detail":"<d1>"},{"detail":"<d2>"},... for details written as they are.
PlainObjects(details) ==
  IF details = <<>> THEN <<>>
  ELSE <<"{", Quote, "d", "e", "t", "a", "i", "l", Quote, ":", Quote>>
         \o Head(details) \o <<Quote, "}">>
         \o (IF Len(details) > 1 THEN <<",">> ELSE <<>>)
         \o PlainObjects(Tail(details))

\* C12: the error-array encoding round-trips.  The encoder writes
\* {"errors":[{"detail":<d1>},...]} with one object per error in list order
\* (the list of the one detail "error message text" gives exactly
\* {"errors":[{"detail":"error message text"}]}), and the decoder recovers
\* from the payload the same details in the same order.
C12_EncodingRoundTrips ==
  callIn.kind = "errors" =>
    /\ callpc \in {"encoded", "done"}
         => /\ callIn.errors = <<ErrorMessageText>>
                 => callOut.text = SamplePayloadText
            /\ (\A i \in 1..Len(callIn.errors) : PlainText(callIn.errors[i]))
                 => callOut.text =
                      <<"{", Quote, "e", "r", "r", "o", "r", "s", Quote, ":",
                        "[">> \o PlainObjects(callIn.errors) \o <<"]", "}">>
    /\ callpc = "done"
         => /\ callOut.decoded.ok
            /\ Len(callOut.decoded.val.errors) = Len(callIn.errors)
            /\ \A i \in 1..Len(callIn.errors) :
                 callOut.decoded.val.errors[i].detail = callIn.errors[i]

\* C12 witness: a list of two different details, one of which needs
\* escaping, was encoded and decoded.
C12_Witness ==
  /\ callpc = "done"
  /\ callIn.kind = "errors"
  /\ Len(callIn.errors) = 2
  /\ callIn.errors[1] = InnerCause
  /\ callIn.errors[2] = ErrorMessageText
  /\ callOut.decoded.ok

\* C13: when a publish fails, the error array of the response holds one
\* detail per cause of the error's chain, from the outermost cause to the
\* innermost: decoding the body of the reply gives as many details as the
\* chain has causes, each equal to the cause at the same position.  Stated
\* of the step that converts the result of publish_crate into the reply.
C13_ChainPreserved ==
  [][\A h \in Handlers :
       (hpc[h] = "return" /\ hpc'[h] = "replied" /\ hres[h].state = "Err")
         => LET details == from_str(hresp'[h].body).val.errors
            IN /\ Len(hres[h].chain) >= 1
               /\ Len(details) = Len(hres[h].chain)
               /\ \A i \in 1..Len(hres[h].chain) :
                    details[i].detail = hres[h].chain[i]]_vars

\* C13 witness: a publish that failed with a chain of two different causes,
\* the inner one needing escaping, was answered with a body.
C13_Witness ==
  \E h \in Handlers :
    /\ hpc[h] = "replied"
    /\ hres[h].kind = "DecodeFailure"
    /\ hres[h].chain = <<Message("DecodeFailure"), InnerCause>>
    /\ hresp[h].body # <<>>

RECURSIVE PathText(_)
\* A path as text: its components separated by "/".
PathText(path) ==
  IF path = <<>> THEN <<>>
  ELSE IF Len(path) = 1 THEN path[1]
  ELSE path[1] \o <<"/">> \o PathText(Tail(path))

\* The texts of the paths the nesting rule resolved for a lowercase name.
ResolvedTexts(lower) ==
  IF callpc = "done" /\ callIn.kind = "name" /\ Lowercase(callIn.text) = lower
    THEN {PathText(callOut.path)}
    ELSE {}

C15_SlotWrittenOnce ==
  /\ [][/\ shared' # shared
            => /\ shared = "None" /\ shared' = "Some"
               /\ mainpc = "populate"
               /\ binds # <<>> /\ binds[Len(binds)].ok
               /\ boundPort # NoPort /\ config = boundPort
               /\ mutex = Free
        /\ shared = "Some" => shared' = "Some"
        /\ diskVars' # diskVars
            => \E h \in Handlers : mutex = h /\ hpc'[h] # hpc[h]]_vars
  /\ [](mainpc \in {"args", "subscriber", "runtime", "readport", "bind",
                     "index", "populate"} => shared = "None")
  /\ [](\A h \in Handlers :
          hpc[h] \in {"decode", "validate", "persist", "append", "flush"}
            => mutex = h /\ shared = "Some")

\* C15 witness: the server is serving with the slot populated after every
\* task took the lock and got its publish through.
C15_Witness ==
  /\ mainpc = "serving"
  /\ shared = "Some"
  /\ \A h \in Handlers : hpc[h] = "replied" /\ hres[h].state = "Ok"

\* The steps of the pipeline, in order.
StepAfter(pc) ==
  IF pc = "decode" THEN "validate"
  ELSE IF pc = "validate" THEN "persist"
  ELSE IF pc = "persist" THEN "append"
  ELSE IF pc = "append" THEN "flush"
  ELSE "return"

\* The body a task is publishing fails at decode or at validation.
FailsEarly(h) ==
  /\ hreq[h] # NoRequest
  /\ \/ ~hreq[h].payload.wellFormed
     \/ hreq[h].payload.name = <<>>
     \/ \E i \in 1..Len(hreq[h].payload.name) :
          hreq[h].payload.name[i] \notin NameChars
     \/ hreq[h].payload.vers \notin Versions
     \/ ~hreq[h].payload.depsOk

\* C16: a publish that fails at decode or validation leaves no side
\* effect.  Every step of a publish either moves to the next step of
\* Received -> Decoded -> Validated -> ArtifactPersisted -> Indexed ->
\* Completed or short-circuits to the return of the failure; no step of a
\* publish whose body is malformed or whose name, version or dependencies
\* are invalid changes an artifact or an index entry file, such a publish
\* never reaches the artifact write or the index append, and it returns a
\* DecodeFailure or a ValidationFailure.
C16_EarlyFailureNoSideEffect ==
  /\ [][\A h \in Handlers :
          ( /\ hpc[h] \in {"decode", "validate", "persist", "append", "flush"}
            /\ hpc'[h] # hpc[h] )
          => /\ hpc'[h] \in {StepAfter(hpc[h]), "return"}
             /\ (hpc'[h] = "return" /\ hpc[h] # "flush")
                  => hres'[h].state = "Err"
             /\ hpc[h] \in {"decode", "validate"}
                  => indexFiles' = indexFiles /\ artifacts' = artifacts
             /\ FailsEarly(h)
                  => /\ indexFiles' = indexFiles
                     /\ artifacts' = artifacts
                     /\ hpc'[h] = "return"
                          => hres'[h].kind \in {"DecodeFailure",
                                                "ValidationFailure"}]_vars
  /\ [](\A h \in Handlers :
          FailsEarly(h) => hpc[h] \notin {"persist", "append", "flush"})
  /\ [](\A h \in Handlers :
          (hpc[h] = "validate" => hreq[h].payload.wellFormed))

\* C16 witness: a publish with an invalid name has returned its
\* ValidationFailure, and no artifact and no index entry exists.
C16_Witness ==
  \E h \in Handlers :
    /\ hpc[h] = "return"
    /\ hreq[h].payload.wellFormed
    /\ hreq[h].payload.name = <<"a", "!">>
    /\ hres[h].kind = "ValidationFailure"
    /\ hres[h].reason = "BadName"
    /\ \A p \in ArtifactPaths : ~artifacts[p].exists
    /\ \A p \in IndexPaths : indexFiles[p] = <<>>

\* The versions recorded in complete lines of the entry file of a name.
RecordedVersions(name) ==
  {indexFiles[CratePath(name)][i].vers :
     i \in {j \in 1..Len(indexFiles[CratePath(name)]) :
              IsLine(indexFiles[CratePath(name)], j)}}

\* C17: append_version of a version that equals no existing version of the
\* name but is not above all of them fails with
\* ValidationFailure(NonMonotonicVersion) and leaves every Index Entry File
\* as it was; append_version writes a record only when the version is
\* strictly greater than every existing version of the name.
C17_NonMonotonicRejected ==
  [][\A h \in Handlers :
       (hpc[h] = "append" /\ hpc'[h] # "append")
         => LET version == hreq[h].payload.vers
                existing == RecordedVersions(hreq[h].payload.name)
            IN /\ ( /\ version \notin existing
                    /\ \E v \in existing : v > version )
                    => /\ hpc'[h] = "return"
                       /\ hres'[h].state = "Err"
                       /\ hres'[h].kind = "ValidationFailure"
                       /\ hres'[h].reason = "NonMonotonicVersion"
                       /\ indexFiles' = indexFiles
               /\ (hpc'[h] = "flush" \/ indexFiles' # indexFiles)
                    => \A v \in existing : version > v]_vars

\* C17 witness: a publish of a version below the recorded one has returned
\* NonMonotonicVersion.
C17_Witness ==
  \E h \in Handlers :
    /\ hpc[h] = "return"
    /\ hres[h].reason = "NonMonotonicVersion"
    /\ hreq[h].payload.vers = 1
    /\ RecordedVersions(hreq[h].payload.name) = {2}

\* C18: a per-request failure never stops the server.  The step at which
\* publish_crate's result, success or error, is turned into the reply
\* releases the lock and leaves the server serving with its slot populated;
\* the lock is held only by a task running a publish; under fair
\* scheduling every publish that reached the closure, holding the lock or
\* waiting for it, is eventually answered, unless the server ended while
\* the publish was still waiting for the lock.
C18_FailureNeverStopsServer ==
  /\ [][\A h \in Handlers :
          (hpc[h] = "return" /\ hpc'[h] = "replied")
            => /\ mutex = h
               /\ mutex' = Free
               /\ mainpc' = "serving"
               /\ shared' = "Some"
               /\ hresp'[h].status = StatusOK]_vars
  /\ [](\A h \in Handlers : mutex = h => Publishing(h))
  /\ \A h \in Handlers :
       InClosure(h) ~> \/ hpc[h] = "replied" /\ mutex # h
                       \/ ~Serving /\ ~Publishing(h)

\* C18 witness: after a publish failed and was answered, another task holds
\* the lock and is completing its own publish.
C18_Witness ==
  \E h1, h2 \in Handlers :
    /\ hpc[h1] = "replied"
    /\ hres[h1].state = "Err"
    /\ hpc[h2] = "flush"
    /\ mutex = h2
    /\ mainpc = "serving"

\* C19: the bind loop ends after at most two bind attempts.  Only the last
\* attempt can have succeeded; a second attempt is made only after the
\* first failed on a recovered port that differs from the requested port,
\* and it is made on the requested port; the loop goes on only after such a
\* first failure; a failure on the requested port ends the loop with
\* BindFailure.  With an explicit non-zero port requested the recorded port
\* is not used: the one attempt made is on the requested port.
C19_BindLoopBounded ==
  /\ Len(binds) <= 2
  /\ \A i \in 1..Len(binds) : binds[i].ok => i = Len(binds)
  /\ Len(binds) = 2
       => /\ ~binds[1].ok
          /\ binds[1].port # reqPort
          /\ reqPort = 0
          /\ binds[2].port = reqPort
  /\ mainpc = "bind"
       => \/ binds = <<>>
          \/ /\ Len(binds) = 1
             /\ ~binds[1].ok
             /\ binds[1].port # reqPort
             /\ addrPort = reqPort
  /\ (binds # <<>> /\ ~binds[Len(binds)].ok
        /\ binds[Len(binds)].port = reqPort)
       => mainpc \in {"returned", "exited"} /\ runResult = "BindFailure"
  /\ (reqPort # 0 /\ binds # <<>>)
       => Len(binds) = 1 /\ binds[1].port = reqPort
  /\ mainpc \in {"index", "populate", "serving"}
       => binds # <<>> /\ binds[Len(binds)].ok

\* C19 witness: an explicit port was requested while the configuration
\* records another one, and the listener was bound at the first attempt.
C19_Witness ==
  /\ mainpc = "index"
  /\ reqPort = 8000
  /\ config = 9001
  /\ binds = <<[port |-> 8000, ok |-> TRUE]>>

====
